---- MODULE Spec2Model ----
(***************************************************************************)
(* docker_ps.py: list containers with `docker ps -a --format json`, inspect *)
(* each one for its start time, derive the display fields, sort and render. *)
(*                                                                         *)
(* Text is modelled as a sequence of one-character strings, so that the    *)
(* substring tests, the regular expressions, the slicing and the string    *)
(* ordering of the program are computed character by character.            *)
(***************************************************************************)
EXTENDS Integers, Sequences, FiniteSets, TLC

VARIABLES
    pc,             \* position of main(), or of the function under test
    returncode,     \* exit status of the list command
    stdout,         \* lines of the list command's output
    containers,     \* main: containers (parsed records, list order)
    idx,            \* main: index of the container in the for loop
    inspected,      \* results of the inspect calls made so far, in order
    container_data, \* main: container_data (the display rows)
    calls,          \* log of subprocess.run starts and returns
    output,         \* what was printed, in order
    arg,            \* argument of the function under test
    ret             \* its return value

vars == <<pc, returncode, stdout, containers, idx, inspected, container_data,
          calls, output, arg, ret>>

----------------------------------------------------------------------------
(* Characters and strings (Python str)                                     *)

\* The printable ASCII characters in code-point order, from 32 to 126.
Alphabet ==
    <<" ","!","QUOTE","#","$","%","&","'","(",")","*","+",",","-",".","/","0","1","2","3","4","5","6","7","8","9",":",";","<","=",">","?","@","A","B","C","D","E","F","G","H","I","J","K","L","M","N","O","P","Q","R","S","T","U","V","W","X","Y","Z","[","BACKSLASH","]","^","_","BACKTICK","a","b","c","d","e","f","g","h","i","j","k","l","m","n","o","p","q","r","s","t","u","v","w","x","y","z","{","|","}","~">>

\* ord(c)
Ord(c) == 31 + (CHOOSE i \in 1..Len(Alphabet) : Alphabet[i] = c)

\* c.lower() for one character
LowerChar(c) ==
    LET o == Ord(c) IN IF o >= 65 /\ o <= 90 THEN Alphabet[o + 32 - 31] ELSE c

\* s.lower()
Lower(s) == [i \in 1..Len(s) |-> LowerChar(s[i])]

\* s.startswith(p, i-1): p occurs in s at position i (1-based)
MatchAt(s, p, i) ==
    /\ i >= 1
    /\ i + Len(p) - 1 <= Len(s)
    /\ \A k \in 1..Len(p) : s[i + k - 1] = p[k]

\* p in s
Contains(s, p) == \E i \in 1..(Len(s) + 1) : MatchAt(s, p, i)

\* s.startswith(p)
StartsWith(s, p) == MatchAt(s, p, 1)

\* c.isdigit() for the ASCII digits, the class \d
IsDigit(c) == c \in {"0","1","2","3","4","5","6","7","8","9"}

\* the class \s within the printable characters of the model
IsSpace(c) == c = " "

\* a < b for str: code-point lexicographic order, a proper prefix is smaller
StrLess(a, b) ==
    \E k \in 1..Len(b) :
        /\ \A j \in 1..(k - 1) : j <= Len(a) /\ a[j] = b[j]
        /\ \/ k = Len(a) + 1
           \/ k <= Len(a) /\ Ord(a[k]) < Ord(b[k])

\* ",".join(parts)
RECURSIVE JoinComma(_)
JoinComma(parts) ==
    IF Len(parts) = 0 THEN <<>>
    ELSE IF Len(parts) = 1 THEN parts[1]
    ELSE parts[1] \o <<",">> \o JoinComma(Tail(parts))

\* the end (exclusive) of the run of digits starting at position i: a greedy \d*
RECURSIVE DigitsEnd(_, _)
DigitsEnd(s, i) ==
    IF i <= Len(s) /\ IsDigit(s[i]) THEN DigitsEnd(s, i + 1) ELSE i

\* the end (exclusive) of the run of white space starting at position i: a greedy \s*
RECURSIVE SpacesEnd(_, _)
SpacesEnd(s, i) ==
    IF i <= Len(s) /\ IsSpace(s[i]) THEN SpacesEnd(s, i + 1) ELSE i

----------------------------------------------------------------------------
(* Field extractors                                                        *)

\* re.findall(r'0\.0\.0\.0:(\d+)', s): the captured digits of the
\* non-overlapping matches, scanning left to right from position i
RECURSIVE FindAllPorts(_, _)
FindAllPorts(s, i) ==
    IF i > Len(s) THEN <<>>
    ELSE IF MatchAt(s, <<"0",".","0",".","0",".","0",":">>, i) /\ DigitsEnd(s, i + 8) > i + 8
         THEN <<SubSeq(s, i + 8, DigitsEnd(s, i + 8) - 1)>>
                  \o FindAllPorts(s, DigitsEnd(s, i + 8))
         ELSE FindAllPorts(s, i + 1)

\* as extract_external_ports, with re.search in place of re.findall
extract_external_ports_first(ports_str) ==
    IF ports_str = <<>> THEN <<>>
    ELSE LET matches == FindAllPorts(ports_str, 1)
         IN  IF matches # <<>> THEN matches[1] ELSE <<>>

extract_external_ports(ports_str) ==
    IF ports_str = <<>> THEN <<>>
    ELSE LET matches == FindAllPorts(ports_str, 1)
         IN  IF matches # <<>> THEN JoinComma(matches) ELSE <<>>

\* the end (exclusive) of the run of non-comma characters from i: a greedy [^,]*
RECURSIVE NonCommaEnd(_, _)
NonCommaEnd(s, i) ==
    IF i <= Len(s) /\ s[i] # "," THEN NonCommaEnd(s, i + 1) ELSE i

WorkingDirKey == <<"c","o","m",".","d","o","c","k","e","r",".","c","o","m","p","o","s","e",".","p","r","o","j","e","c","t",".","w","o","r","k","i","n","g","_","d","i","r","=">>

get_working_dir(labels) ==
    IF labels = <<>> THEN <<>>
    ELSE LET n    == Len(WorkingDirKey)
             hits == {i \in 1..Len(labels) :
                        /\ MatchAt(labels, WorkingDirKey, i)
                        /\ NonCommaEnd(labels, i + n) > i + n}
         IN  IF hits = {} THEN <<>>
             ELSE LET i == CHOOSE h \in hits : \A g \in hits : h <= g
                  IN  SubSeq(labels, i + n, NonCommaEnd(labels, i + n) - 1)

extract_group_from_path(path) ==
    IF path = <<>> THEN <<"z","z","z","_","o","t","h","e","r">>
    ELSE IF Contains(path, <<"/","a","c","t","i","o","n","s","-","r","u","n","n","e","r","/">>) THEN <<"a","_","g","i","t","h","u","b">>
    ELSE IF StartsWith(path, <<"/","o","p","t","/">>) THEN <<"b","_","o","p","t">>
    ELSE IF StartsWith(path, <<"/","v","a","r","/">>) THEN <<"c","_","v","a","r">>
    ELSE <<"d","_","o","t","h","e","r">>

get_simple_status(status) ==
    LET status_lower == Lower(status)
    IN  IF Contains(status_lower, <<"h","e","a","l","t","h","y">>) THEN "healthy"
        ELSE IF Contains(status_lower, <<"u","n","h","e","a","l","t","h","y">>) THEN "unhealthy"
        ELSE IF Contains(status_lower, <<"s","t","a","r","t","i","n","g">>) THEN "starting"
        ELSE IF Contains(status_lower, <<"u","p">>) THEN "running"
        ELSE IF Contains(status_lower, <<"e","x","i","t","e","d"," ","(","0",")">>) THEN "stopped"
        ELSE IF Contains(status_lower, <<"e","x","i","t","e","d">>) THEN "error"
        ELSE IF Contains(status_lower, <<"d","e","a","d">>) THEN "dead"
        ELSE IF Contains(status_lower, <<"p","a","u","s","e","d">>) THEN "paused"
        ELSE IF Contains(status_lower, <<"r","e","s","t","a","r","t","i","n","g">>) THEN "restarting"
        ELSE "unknown"

----------------------------------------------------------------------------
(* Uptime                                                                  *)

\* str(n) for n >= 0
RECURSIVE Decimal(_)
Decimal(n) ==
    IF n < 10 THEN <<Alphabet[n + 17]>>
    ELSE Decimal(n \div 10) \o <<Alphabet[(n % 10) + 17]>>

\* int(digits)
RECURSIVE ParseInt(_)
ParseInt(digits) ==
    IF Len(digits) = 0 THEN 0
    ELSE 10 * ParseInt(SubSeq(digits, 1, Len(digits) - 1))
            + (Ord(digits[Len(digits)]) - 48)

Spaces(k) == [i \in 1..k |-> " "]

\* as Format2d, with the width left out: f"{n:d}"
Format2d_nopad(n) ==
    IF n < 0 THEN <<"-">> \o Decimal(0 - n) ELSE Decimal(n)

\* f"{n:2d}": the decimal digits (with a minus sign when negative),
\* right-justified with spaces to a minimum width of 2
Format2d(n) ==
    LET t == IF n < 0 THEN <<"-">> \o Decimal(0 - n) ELSE Decimal(n)
    IN  IF Len(t) < 2 THEN Spaces(2 - Len(t)) \o t ELSE t

\* the result of the inspect call and of the timestamp arithmetic:
\* either an exception, or uptime_seconds
InspectFailed(kind) == [ok |-> FALSE, error |-> kind, uptime_seconds |-> 0]
InspectOk(secs) == [ok |-> TRUE, error |-> "none", uptime_seconds |-> secs]

\* as get_container_uptime, with <= in place of < at every threshold
get_container_uptime_le(result) ==
    IF ~result.ok THEN <<" "," "," ","?">>
    ELSE LET uptime_seconds == result.uptime_seconds
         IN  IF uptime_seconds <= 60 THEN Format2d(uptime_seconds) \o <<" ","s">>
             ELSE IF uptime_seconds <= 3600
                  THEN Format2d(uptime_seconds \div 60) \o <<" ","m">>
             ELSE IF uptime_seconds <= 86400
                  THEN Format2d(uptime_seconds \div 3600) \o <<" ","h">>
             ELSE IF uptime_seconds <= 2592000
                  THEN Format2d(uptime_seconds \div 86400) \o <<" ","d">>
             ELSE IF uptime_seconds <= 31536000
                  THEN Format2d(uptime_seconds \div 2592000) \o <<" ","m","o">>
             ELSE Format2d(uptime_seconds \div 31536000) \o <<" ","y">>

get_container_uptime(result) ==
    IF ~result.ok THEN <<" "," "," ","?">>
    ELSE LET uptime_seconds == result.uptime_seconds
         IN  IF uptime_seconds < 60 THEN Format2d(uptime_seconds) \o <<" ","s">>
             ELSE IF uptime_seconds < 3600
                  THEN Format2d(uptime_seconds \div 60) \o <<" ","m">>
             ELSE IF uptime_seconds < 86400
                  THEN Format2d(uptime_seconds \div 3600) \o <<" ","h">>
             ELSE IF uptime_seconds < 2592000
                  THEN Format2d(uptime_seconds \div 86400) \o <<" ","d">>
             ELSE IF uptime_seconds < 31536000
                  THEN Format2d(uptime_seconds \div 2592000) \o <<" ","m","o">>
             ELSE Format2d(uptime_seconds \div 31536000) \o <<" ","y">>

NoMatch == <<"None">>

\* re.search(r'(\d+)\s+' + word, s): group 1 of the leftmost match, or NoMatch
SearchNumberBefore(s, word) ==
    LET hits == {i \in 1..Len(s) :
                   /\ IsDigit(s[i])
                   /\ SpacesEnd(s, DigitsEnd(s, i)) > DigitsEnd(s, i)
                   /\ MatchAt(s, word, SpacesEnd(s, DigitsEnd(s, i)))}
    IN  IF hits = {} THEN NoMatch
        ELSE LET i == CHOOSE h \in hits : \A g \in hits : h <= g
             IN  SubSeq(s, i, DigitsEnd(s, i) - 1)

\* Defined by the program, called from nowhere in it.
parse_status_for_time(status) ==
    LET time(word, unit) ==
            LET match == SearchNumberBefore(status, word)
            IN  IF match # NoMatch THEN Format2d(ParseInt(match)) \o unit
                ELSE <<" "," "," ","?">>
    IN  IF Contains(status, <<"s","e","c","o","n","d">>) THEN time(<<"s","e","c","o","n","d">>, <<" ","s">>)
        ELSE IF Contains(status, <<"m","i","n","u","t","e">>) THEN time(<<"m","i","n","u","t","e">>, <<" ","m">>)
        ELSE IF Contains(status, <<"h","o","u","r">>) THEN time(<<"h","o","u","r">>, <<" ","h">>)
        ELSE IF Contains(status, <<"d","a","y">>) THEN time(<<"d","a","y">>, <<" ","d">>)
        ELSE <<" "," "," ","?">>

----------------------------------------------------------------------------
(* Bounds and inputs                                                        *)

MaxStatusParts == 2
MaxPortEntries == 2
MaxSeconds == 130
MaxMultiple == 12
MaxSkew == 2

\* Pieces of the status texts `docker ps` prints.
StatusParts ==
    { <<"U","p"," ","3"," ","h","o","u","r","s">>, <<"U","p"," ","5"," ","m","i","n","u","t","e","s">>, <<" ","(","h","e","a","l","t","h","y",")">>, <<" ","(","u","n","h","e","a","l","t","h","y",")">>,
      <<" ","(","h","e","a","l","t","h",":"," ","s","t","a","r","t","i","n","g",")">>, <<" ","(","P","a","u","s","e","d",")">>, <<"E","x","i","t","e","d"," ","(","0",")"," ","2"," ","h","o","u","r","s"," ","a","g","o">>,
      <<"E","x","i","t","e","d"," ","(","1",")"," ","2"," ","h","o","u","r","s"," ","a","g","o">>, <<"R","e","s","t","a","r","t","i","n","g"," ","(","1",")"," ","5"," ","s","e","c","o","n","d","s"," ","a","g","o">>,
      <<"D","e","a","d">>, <<"C","r","e","a","t","e","d">>, <<"R","e","m","o","v","a","l"," ","I","n"," ","P","r","o","g","r","e","s","s">> }

RECURSIVE Flatten(_)
Flatten(ss) == IF Len(ss) = 0 THEN <<>> ELSE ss[1] \o Flatten(Tail(ss))

StatusTexts ==
    { Flatten(ps) : ps \in UNION { [1..n -> StatusParts] : n \in 0..MaxStatusParts } }

\* Entries of the ports text `docker ps` prints, each with the port number
\* that its text shows after "0.0.0.0:" (<<>> when it shows none).
PortEntries ==
    { [text |-> <<"0",".","0",".","0",".","0",":","8","0","-",">","8","0","/","t","c","p">>,                published |-> <<"8","0">>],
      [text |-> <<"0",".","0",".","0",".","0",":","8","0","-",">","8","0","/","u","d","p">>,                published |-> <<"8","0">>],
      [text |-> <<":",":",":","8","0","-",">","8","0","/","t","c","p">>,                     published |-> <<>>],
      [text |-> <<"0",".","0",".","0",".","0",":","4","4","3","-",">","4","4","3","/","t","c","p">>,              published |-> <<"4","4","3">>],
      [text |-> <<"1","2","7",".","0",".","0",".","1",":","5","4","3","2","-",">","5","4","3","2","/","t","c","p">>,          published |-> <<>>],
      [text |-> <<"8","0","8","0","/","t","c","p">>,                          published |-> <<>>],
      [text |-> <<"1","0",".","0",".","0",".","0",":","8","1","-",">","8","1","/","t","c","p">>,               published |-> <<"8","1">>],
      [text |-> <<"0",".","0",".","0",".","0",":","8","0","0","0","-","8","0","0","1","-",">","8","0","0","0","-","8","0","0","1","/","t","c","p">>,  published |-> <<"8","0","0","0">>] }

\* the entries joined with ", " as docker prints them
RECURSIVE PortsText(_)
PortsText(es) ==
    IF Len(es) = 0 THEN <<>>
    ELSE IF Len(es) = 1 THEN es[1].text
    ELSE es[1].text \o <<","," ">> \o PortsText(Tail(es))

\* the port numbers the entries show after "0.0.0.0:", one per entry, in order
RECURSIVE PublishedPorts(_)
PublishedPorts(es) ==
    IF Len(es) = 0 THEN <<>>
    ELSE (IF es[1].published = <<>> THEN <<>> ELSE <<es[1].published>>)
             \o PublishedPorts(Tail(es))

PortsInputs ==
    { [text |-> PortsText(es), published |-> PublishedPorts(es)] :
        es \in UNION { [1..n -> PortEntries] : n \in 0..MaxPortEntries } }

UnitSeconds == {60, 3600, 86400, 2592000, 31536000}

Durations ==
    ((0 - MaxSkew)..MaxSeconds)
        \cup { k * u + r : k \in 1..MaxMultiple, u \in UnitSeconds, r \in {-1, 0, 1} }

InspectResults ==
    { InspectFailed("CalledProcessError"), InspectFailed("ValueError") }
        \cup { InspectOk(d) : d \in Durations }

----------------------------------------------------------------------------
(* The extractors on their own: one call of one function                    *)

MainIdle ==
    /\ returncode = 0
    /\ stdout = <<>>
    /\ containers = <<>>
    /\ idx = 0
    /\ inspected = <<>>
    /\ container_data = <<>>
    /\ calls = <<>>
    /\ output = <<>>

MainUnchanged ==
    UNCHANGED <<returncode, stdout, containers, idx, inspected, container_data,
                calls, output>>

InitStatus == pc = "call" /\ arg \in StatusTexts /\ ret = "" /\ MainIdle

CallStatus ==
    /\ pc = "call"
    /\ ret' = get_simple_status(arg)
    /\ pc' = "return"
    /\ UNCHANGED arg
    /\ MainUnchanged

NextStatus == CallStatus

SpecStatus == InitStatus /\ [][NextStatus]_vars

InitPorts == pc = "call" /\ arg \in PortsInputs /\ ret = <<>> /\ MainIdle

CallPorts ==
    /\ pc = "call"
    /\ ret' = extract_external_ports(arg.text)
    /\ pc' = "return"
    /\ UNCHANGED arg
    /\ MainUnchanged

NextPorts == CallPorts

SpecPorts == InitPorts /\ [][NextPorts]_vars

InitUptime == pc = "call" /\ arg \in InspectResults /\ ret = <<>> /\ MainIdle

CallUptime ==
    /\ pc = "call"
    /\ ret' = get_container_uptime(arg)
    /\ pc' = "return"
    /\ UNCHANGED arg
    /\ MainUnchanged

NextUptime == CallUptime

SpecUptime == InitUptime /\ [][NextUptime]_vars

----------------------------------------------------------------------------
(* The run of main()                                                        *)

MaxLines == 2

\* Containers as `docker ps -a --format json` describes them.
Catalogue ==
    { [ID     |-> <<"3","f","2","a","9","c","1","b","7","d","0","e">>,
       Names  |-> <<"w","e","b">>,
       Status |-> <<"U","p"," ","3"," ","h","o","u","r","s"," ","(","u","n","h","e","a","l","t","h","y",")">>,
       Ports  |-> <<"0",".","0",".","0",".","0",":","8","0","-",">","8","0","/","t","c","p",","," ","0",".","0",".","0",".","0",":","8","0","-",">","8","0","/","u","d","p">>,
       Labels |-> <<"c","o","m",".","d","o","c","k","e","r",".","c","o","m","p","o","s","e",".","p","r","o","j","e","c","t",".","w","o","r","k","i","n","g","_","d","i","r","=","/","o","p","t","/","a","p","p",",","c","o","m",".","d","o","c","k","e","r",".","c","o","m","p","o","s","e",".","s","e","r","v","i","c","e","=","w","e","b">>],
      [ID     |-> <<"a","8","1","c","0","4","e","2","f","9","b","3">>,
       Names  |-> <<"d","b">>,
       Status |-> <<"E","x","i","t","e","d"," ","(","0",")"," ","2"," ","h","o","u","r","s"," ","a","g","o">>,
       Ports  |-> <<>>,
       Labels |-> <<>>],
      [ID     |-> <<"5","d","3","e","7","a","1","0","c","2","f","4">>,
       Names  |-> <<"a","p","i">>,
       Status |-> <<"U","p"," ","5"," ","m","i","n","u","t","e","s">>,
       Ports  |-> <<"0",".","0",".","0",".","0",":","8","0","8","0","-",">","8","0","/","t","c","p",","," ",":",":",":","8","0","8","0","-",">","8","0","/","t","c","p">>,
       Labels |-> <<"m","a","i","n","t","a","i","n","e","r","=","o","p","s",",","c","o","m",".","d","o","c","k","e","r",".","c","o","m","p","o","s","e",".","p","r","o","j","e","c","t",".","w","o","r","k","i","n","g","_","d","i","r","=","/","v","a","r","/","l","i","b","/","a","p","i">>],
      [ID     |-> <<"0","b","9","f","6","d","2","e","8","a","7","1">>,
       Names  |-> <<"r","u","n","n","e","r">>,
       Status |-> <<"R","e","s","t","a","r","t","i","n","g"," ","(","1",")"," ","5"," ","s","e","c","o","n","d","s"," ","a","g","o">>,
       Ports  |-> <<>>,
       Labels |-> <<"c","o","m",".","d","o","c","k","e","r",".","c","o","m","p","o","s","e",".","p","r","o","j","e","c","t",".","w","o","r","k","i","n","g","_","d","i","r","=","/","h","o","m","e","/","c","i","/","a","c","t","i","o","n","s","-","r","u","n","n","e","r","/","w">>],
      [ID     |-> <<"c","4","7","e","1","f","9","0","a","b","3","5">>,
       Names  |-> <<"c","a","c","h","e">>,
       Status |-> <<"C","r","e","a","t","e","d">>,
       Ports  |-> <<"6","3","7","9","/","t","c","p">>,
       Labels |-> <<"c","o","m",".","d","o","c","k","e","r",".","c","o","m","p","o","s","e",".","p","r","o","j","e","c","t",".","w","o","r","k","i","n","g","_","d","i","r","=","/","o","p","t","/","a","p","p">>] }

NoRecord == [ID |-> <<>>, Names |-> <<>>, Status |-> <<>>, Ports |-> <<>>, Labels |-> <<>>]

\* A line of the list command's output: a JSON object, text json.loads
\* rejects, or an empty line.
Lines ==
    { [kind |-> "json", obj |-> c] : c \in Catalogue }
        \cup { [kind |-> "malformed", obj |-> NoRecord],
               [kind |-> "blank", obj |-> NoRecord] }

Stdouts == UNION { [1..n -> Lines] : n \in 0..MaxLines }

\* What the inspect call of main() and the clock can give.
MainInspectResults ==
    { InspectFailed("CalledProcessError"), InspectFailed("ValueError"),
      InspectOk(45), InspectOk(5200000) }

Started(cmd, id) == [event |-> "start", cmd |-> cmd, id |-> id]
Returned(cmd, id) == [event |-> "return", cmd |-> cmd, id |-> id]

Printed(text) == [kind |-> "text", text |-> text, rows |-> <<>>]
PrintedTable(rows) == [kind |-> "table", text |-> "", rows |-> rows]

\* as ParseLines, with a rejected line skipped instead of raising
RECURSIVE ParseLines_skip(_)
ParseLines_skip(lines) ==
    IF Len(lines) = 0 THEN [raised |-> FALSE, containers |-> <<>>]
    ELSE IF lines[1].kind # "json" THEN ParseLines_skip(Tail(lines))
    ELSE [raised |-> FALSE,
          containers |-> <<lines[1].obj>> \o ParseLines_skip(Tail(lines)).containers]

\* The loop of get_docker_containers over the lines: json.loads raises on the
\* first line it rejects, and nothing catches it.
RECURSIVE ParseLines(_)
ParseLines(lines) ==
    IF Len(lines) = 0 THEN [raised |-> FALSE, containers |-> <<>>]
    ELSE IF lines[1].kind = "blank" THEN ParseLines(Tail(lines))
    ELSE IF lines[1].kind = "malformed" THEN [raised |-> TRUE, containers |-> <<>>]
    ELSE LET rest == ParseLines(Tail(lines))
         IN  [raised |-> rest.raised,
              containers |-> IF rest.raised THEN <<>>
                             ELSE <<lines[1].obj>> \o rest.containers]

get_status_style(status) ==
    IF status = "healthy" THEN "bright_green"
    ELSE IF status = "unhealthy" THEN "bright_red"
    ELSE IF status = "running" THEN "bright_cyan"
    ELSE IF status \in {"stopped", "error"} THEN "bright_red"
    ELSE IF status \in {"starting", "restarting"} THEN "bright_yellow"
    ELSE "white"

\* s[:8]
Take8(s) == SubSeq(s, 1, IF Len(s) < 8 THEN Len(s) ELSE 8)

\* x or "-"
OrDash(s) == IF s = <<>> THEN <<"-">> ELSE s

\* the dict main() appends to container_data for one container
DisplayRow(container, uptime) ==
    LET workdir == get_working_dir(container.Labels)
    IN  [group   |-> extract_group_from_path(workdir),
         id      |-> Take8(container.ID),
         name    |-> container.Names,
         workdir |-> OrDash(workdir),
         ports   |-> extract_external_ports(container.Ports),
         uptime  |-> uptime,
         status  |-> get_simple_status(container.Status)]

\* as KeyLess, for the key  (x["group"], x["workdir"], x["name"])
KeyLess_group(a, b) ==
    \/ StrLess(a.group, b.group)
    \/ a.group = b.group /\ StrLess(a.workdir, b.workdir)
    \/ a.group = b.group /\ a.workdir = b.workdir /\ StrLess(a.name, b.name)

\* key(a) < key(b) for the key  (x["workdir"], x["name"])
KeyLess(a, b) ==
    \/ StrLess(a.workdir, b.workdir)
    \/ a.workdir = b.workdir /\ StrLess(a.name, b.name)

\* list.sort(key=...): a stable sort
RECURSIVE InsertRow(_, _)
InsertRow(x, s) ==
    IF Len(s) = 0 THEN <<x>>
    ELSE IF KeyLess(x, s[1]) THEN <<x>> \o s
    ELSE <<s[1]>> \o InsertRow(x, Tail(s))

RECURSIVE SortRows(_)
SortRows(s) ==
    IF Len(s) = 0 THEN <<>>
    ELSE InsertRow(s[Len(s)], SortRows(SubSeq(s, 1, Len(s) - 1)))

\* the cells of table.add_row for one sorted dict
TableRow(c) ==
    [id           |-> c.id,
     name         |-> c.name,
     name_style   |-> get_status_style(c.status),
     workdir      |-> c.workdir,
     ports        |-> OrDash(c.ports),
     uptime       |-> c.uptime,
     status       |-> c.status,
     status_style |-> get_status_style(c.status)]

Init ==
    /\ pc = "start"
    /\ returncode = 0
    /\ stdout = <<>>
    /\ containers = <<>>
    /\ idx = 0
    /\ inspected = <<>>
    /\ container_data = <<>>
    /\ calls = <<>>
    /\ output = <<>>
    /\ arg = <<>>
    /\ ret = <<>>

\* main() calls get_docker_containers, which starts `docker ps -a --format json`
ListStart ==
    /\ pc = "start"
    /\ calls' = Append(calls, Started("ps", <<>>))
    /\ pc' = "list_wait"
    /\ UNCHANGED <<returncode, stdout, containers, idx, inspected,
                   container_data, output, arg, ret>>

\* the list command exits with status 0: its lines are parsed, and main()
\* either stops on an empty list or enters its loop
ListReturn ==
    /\ pc = "list_wait"
    /\ \E lines \in Stdouts :
         LET parsed == ParseLines(lines)
         IN  /\ returncode' = 0
             /\ stdout' = lines
             /\ calls' = Append(calls, Returned("ps", <<>>))
             /\ IF parsed.raised
                THEN /\ pc' = "crashed"
                     /\ UNCHANGED <<containers, idx, output>>
                ELSE /\ containers' = parsed.containers
                     /\ IF parsed.containers = <<>>
                        THEN /\ output' = Append(output, Printed("No containers found"))
                             /\ pc' = "done"
                             /\ UNCHANGED idx
                        ELSE /\ pc' = "loop"
                             /\ idx' = 1
                             /\ UNCHANGED output
    /\ UNCHANGED <<inspected, container_data, arg, ret>>

\* as ListReturn_Error, with the CalledProcessError not caught
ListReturn_Error_raise ==
    /\ pc = "list_wait"
    /\ \E lines \in Stdouts : stdout' = lines
    /\ returncode' = 1
    /\ calls' = Append(calls, Returned("ps", <<>>))
    /\ pc' = "crashed"
    /\ UNCHANGED <<containers, output, idx, inspected, container_data, arg, ret>>

\* the list command exits with a non-zero status: CalledProcessError is
\* caught, the error is printed, [] is returned and main() stops on it
ListReturn_Error ==
    /\ pc = "list_wait"
    /\ \E lines \in Stdouts : stdout' = lines
    /\ returncode' = 1
    /\ calls' = Append(calls, Returned("ps", <<>>))
    /\ containers' = <<>>
    /\ output' = output \o << Printed("Error running docker command"),
                              Printed("No containers found") >>
    /\ pc' = "done"
    /\ UNCHANGED <<idx, inspected, container_data, arg, ret>>

\* the loop of main() reaches get_container_uptime, which starts `docker inspect`
InspectStart ==
    /\ pc = "loop"
    /\ idx <= Len(containers)
    /\ calls' = Append(calls, Started("inspect", containers[idx].ID))
    /\ pc' = "inspect_wait"
    /\ UNCHANGED <<returncode, stdout, containers, idx, inspected,
                   container_data, output, arg, ret>>

\* as InspectReturn, with a failed inspect call tried again
InspectReturn_retry ==
    /\ pc = "inspect_wait"
    /\ \E result \in MainInspectResults :
         IF result.ok
         THEN /\ inspected' = Append(inspected, result)
              /\ container_data' =
                     Append(container_data,
                            DisplayRow(containers[idx], get_container_uptime(result)))
              /\ idx' = idx + 1
              /\ pc' = IF idx = Len(containers) THEN "sort" ELSE "loop"
         ELSE /\ pc' = "loop"
              /\ UNCHANGED <<inspected, container_data, idx>>
    /\ calls' = Append(calls, Returned("inspect", containers[idx].ID))
    /\ UNCHANGED <<returncode, stdout, containers, output, arg, ret>>

\* the inspect call returns or raises; the row of the container is appended
InspectReturn ==
    /\ pc = "inspect_wait"
    /\ \E result \in MainInspectResults :
         /\ inspected' = Append(inspected, result)
         /\ container_data' =
                Append(container_data,
                       DisplayRow(containers[idx], get_container_uptime(result)))
    /\ calls' = Append(calls, Returned("inspect", containers[idx].ID))
    /\ idx' = idx + 1
    /\ pc' = IF idx = Len(containers) THEN "sort" ELSE "loop"
    /\ UNCHANGED <<returncode, stdout, containers, output, arg, ret>>

\* after the loop: sort container_data, build the table and print it
Render ==
    /\ pc = "sort"
    /\ container_data' = SortRows(container_data)
    /\ output' = Append(output,
                        PrintedTable([i \in 1..Len(container_data) |->
                                        TableRow(SortRows(container_data)[i])]))
    /\ pc' = "done"
    /\ UNCHANGED <<returncode, stdout, containers, idx, inspected, calls, arg, ret>>

Next ==
    \/ ListStart
    \/ ListReturn
    \/ ListReturn_Error
    \/ InspectStart
    \/ InspectReturn
    \/ Render

Spec == Init /\ [][Next]_vars

----------------------------------------------------------------------------
(* Properties                                                               *)

StatusKeywords ==
    { "healthy", "unhealthy", "starting", "running", "stopped", "error",
      "dead", "paused", "restarting", "unknown" }

Placeholder == <<" "," "," ","?">>

ListReturned == pc \notin {"start", "list_wait"}

HasMalformedLine == \E i \in 1..Len(stdout) : stdout[i].kind = "malformed"

HasJsonLine == \E i \in 1..Len(stdout) : stdout[i].kind = "json"

Tables == { i \in 1..Len(output) : output[i].kind = "table" }

InspectStarts == { i \in 1..Len(calls) : calls[i].cmd = "inspect" /\ calls[i].event = "start" }

\* C1: whenever the lower-cased status text contains "unhealthy", the
\* normalized status is "unhealthy" (never "healthy", never "running").
C1_UnhealthyWins ==
    (pc = "return" /\ Contains(Lower(arg), <<"u","n","h","e","a","l","t","h","y">>)) => ret = "unhealthy"

\* C2: once the table is printed, every container whose inspect call failed
\* has a row whose uptime cell is the relative time parsed from its own
\* status text (the placeholder only when the text has no time word).
C2_FallbackParsesStatus ==
    pc = "done" /\ containers # <<>> =>
        /\ Tables # {}
        /\ \A i \in 1..Len(containers) :
             ~inspected[i].ok =>
                \E t \in Tables : \E r \in 1..Len(output[t].rows) :
                    /\ output[t].rows[r].id = Take8(containers[i].ID)
                    /\ output[t].rows[r].name = containers[i].Names
                    /\ output[t].rows[r].uptime
                           = parse_status_for_time(containers[i].Status)

\* a <= b on the pair (displayed working directory, name), compared as text
RowOrdered(a, b) ==
    \/ StrLess(a.workdir, b.workdir)
    \/ /\ a.workdir = b.workdir
       /\ a.name = b.name \/ StrLess(a.name, b.name)

\* C3: for a non-empty list of n containers the table has exactly n rows, a
\* permutation of the containers, ascending by (displayed working directory,
\* name), where a container without working directory shows "-"; whatever
\* the inspect calls did, and whatever the group buckets are.
C3_RowsSorted ==
    pc = "done" /\ containers # <<>> =>
        /\ Len(output) = 1
        /\ output[1].kind = "table"
        /\ LET rows == output[1].rows
               n    == Len(containers)
           IN  /\ Len(rows) = n
               /\ \E p \in [1..n -> 1..n] :
                    /\ \A i, j \in 1..n : p[i] = p[j] => i = j
                    /\ \A i \in 1..n :
                         /\ rows[i].id = Take8(containers[p[i]].ID)
                         /\ rows[i].name = containers[p[i]].Names
                         /\ rows[i].uptime = get_container_uptime(inspected[p[i]])
                         /\ rows[i].workdir =
                              IF get_working_dir(containers[p[i]].Labels) = <<>>
                              THEN <<"-">>
                              ELSE get_working_dir(containers[p[i]].Labels)
               /\ \A i, j \in 1..n : i < j => RowOrdered(rows[i], rows[j])

C3_Witness ==
    /\ pc = "done"
    /\ Len(containers) = 2
    /\ containers[1].Names = <<"r","u","n","n","e","r">>
    /\ containers[2].Labels = <<>>
    /\ ~inspected[1].ok
    /\ inspected[2].ok
    /\ Tables = {1}
    /\ output[1].rows[1].workdir = <<"-">>
    /\ output[1].rows[2].name = <<"r","u","n","n","e","r">>

\* the first occurrence of each element, in order
RECURSIVE Distinct(_)
Distinct(s) ==
    IF Len(s) = 0 THEN <<>>
    ELSE LET front == Distinct(SubSeq(s, 1, Len(s) - 1))
         IN  IF \E i \in 1..Len(front) : front[i] = s[Len(s)]
             THEN front ELSE Append(front, s[Len(s)])

\* C4 as claimed: the result is the distinct port numbers shown after
\* "0.0.0.0:", each once, comma-joined in order of first appearance.
C4_DistinctPorts ==
    pc = "return" => ret = JoinComma(Distinct(arg.published))

\* C4 as amended: the result is the port numbers shown after "0.0.0.0:", one
\* per occurrence (a repeated port is repeated), comma-joined in order of
\* appearance; the empty string when there is none.
C4_EveryOccurrence ==
    pc = "return" => ret = JoinComma(arg.published)

C4_Witness ==
    /\ pc = "return"
    /\ arg.text = <<"0",".","0",".","0",".","0",":","8","0","-",">","8","0","/","t","c","p",","," ","0",".","0",".","0",".","0",":","8","0","-",">","8","0","/","u","d","p">>
    /\ ret = <<"8","0",",","8","0">>

\* str is the magnitude m in decimal, right-justified to a minimum width of
\* 2, then one space, then the unit
IsUptimeText(str, m, unit) ==
    \E pad \in 0..1 : \E n \in 1..Len(str) :
        /\ Len(str) = pad + n + 1 + Len(unit)
        /\ pad = (IF n < 2 THEN 2 - n ELSE 0)
        /\ \A i \in 1..pad : str[i] = " "
        /\ \A i \in (pad + 1)..(pad + n) : IsDigit(str[i])
        /\ n = 1 \/ str[pad + 1] # "0"
        /\ ParseInt(SubSeq(str, pad + 1, pad + n)) = m
        /\ str[pad + n + 1] = " "
        /\ SubSeq(str, pad + n + 2, Len(str)) = unit

\* C5: for a duration d >= 0 the precise uptime is the floor quotient by the
\* unit chosen by the thresholds 60, 3600, 86400, 2592000 and 31536000,
\* right-justified to width 2, a space and the suffix s, m, h, d, mo or y;
\* each threshold itself falls in the coarser unit.
C5_UptimeThresholds ==
    (pc = "return" /\ arg.ok /\ arg.uptime_seconds >= 0) =>
        LET d == arg.uptime_seconds
        IN  /\ d < 60 => IsUptimeText(ret, d, <<"s">>)
            /\ 60 <= d /\ d < 3600 => IsUptimeText(ret, d \div 60, <<"m">>)
            /\ 3600 <= d /\ d < 86400 => IsUptimeText(ret, d \div 3600, <<"h">>)
            /\ 86400 <= d /\ d < 2592000 => IsUptimeText(ret, d \div 86400, <<"d">>)
            /\ 2592000 <= d /\ d < 31536000
                  => IsUptimeText(ret, d \div 2592000, <<"m","o">>)
            /\ 31536000 <= d => IsUptimeText(ret, d \div 31536000, <<"y">>)
            /\ d = 60 => ret = <<" ","1"," ","m">>
            /\ d = 3600 => ret = <<" ","1"," ","h">>
            /\ d = 86400 => ret = <<" ","1"," ","d">>
            /\ d = 2592000 => ret = <<" ","1"," ","m","o">>
            /\ d = 31536000 => ret = <<" ","1"," ","y">>

C5_Witness ==
    /\ pc = "return"
    /\ arg.ok
    /\ arg.uptime_seconds = 31536000
    /\ ret = <<" ","1"," ","y">>

\* C6: when the list command fails, or succeeds with no container, the run
\* ends normally having printed "No containers found" (after an error line
\* in the first case, as the only output in the second), with no inspect
\* call and no table.
C6_NoContainers ==
    (ListReturned /\ (returncode # 0 \/ (~HasMalformedLine /\ ~HasJsonLine))) =>
        /\ pc = "done"
        /\ output = IF returncode # 0
                    THEN << Printed("Error running docker command"),
                            Printed("No containers found") >>
                    ELSE << Printed("No containers found") >>
        /\ InspectStarts = {}
        /\ Tables = {}
        /\ calls = << Started("ps", <<>>), Returned("ps", <<>>) >>

C6_Witness ==
    /\ pc = "done"
    /\ returncode # 0
    /\ output[Len(output)] = Printed("No containers found")
    /\ Len(output) = 2

\* C7: when json.loads rejects a line of the list output, the run aborts:
\* no inspect call, no "No containers found", no table, also when the other
\* lines are well-formed.
C7_MalformedLineAborts ==
    (ListReturned /\ returncode = 0 /\ HasMalformedLine) =>
        /\ pc = "crashed"
        /\ output = <<>>
        /\ InspectStarts = {}
        /\ container_data = <<>>

C7_Witness ==
    /\ pc = "crashed"
    /\ Len(stdout) = 2
    /\ stdout[1].kind = "json"
    /\ stdout[2].kind = "malformed"

\* C8 as claimed: the placeholder and the precise value of every duration
\* d >= 0 have one and the same length.
C8_FixedWidth ==
    (pc = "return" /\ (arg.ok => arg.uptime_seconds >= 0)) =>
        Len(ret) = Len(Placeholder)

\* C8 as amended: the placeholder and the precise value of every duration
\* 0 <= d < 2592000 (units s, m, h, d) have the same length, 4; the value
\* of a duration 2592000 <= d < 31536000 (unit mo) is one character longer.
C8_WidthByUnit ==
    (pc = "return" /\ (arg.ok => arg.uptime_seconds >= 0)) =>
        /\ (~arg.ok \/ arg.uptime_seconds < 2592000) => Len(ret) = Len(Placeholder)
        /\ (arg.ok /\ 2592000 <= arg.uptime_seconds /\ arg.uptime_seconds < 31536000)
              => Len(ret) = Len(Placeholder) + 1

C8_Witness ==
    /\ pc = "return"
    /\ arg.ok
    /\ arg.uptime_seconds = 2592000
    /\ Len(ret) = 5

\* the calls of a complete run over the containers cs
RECURSIVE InspectCalls(_)
InspectCalls(cs) ==
    IF Len(cs) = 0 THEN <<>>
    ELSE << Started("inspect", cs[1].ID), Returned("inspect", cs[1].ID) >>
             \o InspectCalls(Tail(cs))

ExpectedCalls(cs) == << Started("ps", <<>>), Returned("ps", <<>>) >> \o InspectCalls(cs)

\* C9: in a run whose list query gives n >= 0 containers, the calls are the
\* list call and then one inspect call per container in list order, each
\* started after the previous call returned and before any table output:
\* n + 1 calls when the run ends, none repeated, whether or not one fails.
C9_CallsInOrder ==
    /\ pc = "start" => calls = <<>>
    /\ pc = "list_wait" => calls = << Started("ps", <<>>) >>
    /\ pc \in {"loop", "inspect_wait", "sort", "done"} =>
         /\ Len(calls) <= Len(ExpectedCalls(containers))
         /\ calls = SubSeq(ExpectedCalls(containers), 1, Len(calls))
    /\ pc = "inspect_wait" <=> (calls # <<>> /\ calls[Len(calls)].event = "start"
                                 /\ calls[Len(calls)].cmd = "inspect")
    /\ pc \in {"sort", "done"} =>
         /\ calls = ExpectedCalls(containers)
         /\ Cardinality({ i \in 1..Len(calls) : calls[i].event = "start" })
                = Len(containers) + 1
    /\ Tables # {} => pc = "done"

C9_Witness ==
    /\ pc = "done"
    /\ Len(containers) = 2
    /\ ~inspected[1].ok
    /\ Tables # {}
    /\ Len(calls) = 6

\* C10: each of the ten keywords is the normalized status of some status
\* text ("Restarting (1) 5 seconds ago" being one that gives "restarting").
C10_StatusOnto ==
    pc = "return" =>
        /\ \A k \in StatusKeywords :
             \E s \in StatusTexts : get_simple_status(s) = k
        /\ arg = <<"R","e","s","t","a","r","t","i","n","g"," ","(","1",")"," ","5"," ","s","e","c","o","n","d","s"," ","a","g","o">> => ret = "restarting"

====
